---- MODULE Spec2Model ----
(***************************************************************************)
(* Boolean search over an inverted index (hw_boolean_search.py).           *)
(*                                                                         *)
(* Strings are sequences of one-character strings, so that tokenize, the   *)
(* isalnum test, int() and the f-string keys of SearchResults are computed *)
(* character by character as the code computes them.                       *)
(***************************************************************************)
EXTENDS Integers, Sequences, FiniteSets, TLC

VARIABLES
    inverted_index, \* Index.inverted_index: word -> set of document ids
    queries,        \* the lines of the queries file: [qid, query]
    line,           \* the line of the queries file main is at
    pc,             \* where main is: "loop", "search", "raised", "done"
    query_tree,     \* the QueryTree of the current line, or the exception raised
    found,          \* what evaluate_tree returned for it
    results,        \* SearchResults.results
    added,          \* history: the (query id, document id) pairs passed to add
    calls,          \* history: the number of add calls
    submission      \* the submission file

vars == <<inverted_index, queries, line, pc, query_tree, found,
          results, added, calls, submission>>

----------------------------------------------------------------------------
(* Bounds *)

\* longest query of the exhaustive part of the query pool
MaxQueryLen == 2
\* number of documents of the docs file
MaxDocs == 2
\* number of lines of the queries file in SpecMain
MaxBatch == 2
\* number of SearchResults.add calls in SpecResults
MaxAdds == 2

----------------------------------------------------------------------------
(* Characters and strings *)

Last(s) == s[Len(s)]
Front(s) == SubSeq(s, 1, Len(s) - 1)

\* the characters queries are made of
Alphabet == {"a", "b", "-", "_", "(", ")", " ", "|", "!"}

\* str.isalnum() on one character, over the characters of the model
AlnumChars == {"a", "b", "0", "1", "2", "3", "4", "5", "6", "7", "8", "9"}

isalnum(s) == s # <<>> /\ \A k \in 1..Len(s) : s[k] \in AlnumChars

\* "_" in token
has_underscore(s) == \E k \in 1..Len(s) : s[k] = "_"

\* the test of lines 60 and 121
is_operand(s) == isalnum(s) \/ has_underscore(s)

DigitChars == <<"0", "1", "2", "3", "4", "5", "6", "7", "8", "9">>

\* str(n) of a non-negative int, as the f-string of line 144 renders it
RECURSIVE int_to_str(_)
int_to_str(n) ==
    IF n < 10 THEN <<DigitChars[n + 1]>>
    ELSE Append(int_to_str(n \div 10), DigitChars[(n % 10) + 1])

DigitValue(c) == CHOOSE v \in 0..9 : DigitChars[v + 1] = c

is_digits(s) == s # <<>> /\ \A k \in 1..Len(s) : \E v \in 0..9 : DigitChars[v + 1] = s[k]

\* int(fields[0]) of line 177 on a string of decimal digits
RECURSIVE str_to_int(_)
str_to_int(s) ==
    IF Len(s) = 1 THEN DigitValue(s[1])
    ELSE 10 * str_to_int(Front(s)) + DigitValue(Last(s))

----------------------------------------------------------------------------
(* BooleanNode and parse_query *)

None == [none |-> TRUE]

BooleanNode(value, left, right) == [value |-> value, left |-> left, right |-> right]

Delimiters == {"(", ")", " ", "|", "!"}

RECURSIVE tokenize_loop(_, _, _, _)
tokenize_loop(query, k, tokens, token) ==
    IF k > Len(query)
    THEN IF token # <<>> THEN Append(tokens, token) ELSE tokens
    ELSE LET char == query[k] IN
         IF char \in Delimiters
         THEN tokenize_loop(query, k + 1,
                  Append(IF token # <<>> THEN Append(tokens, token) ELSE tokens,
                         <<char>>),
                  <<>>)
         ELSE tokenize_loop(query, k + 1, tokens, Append(token, char))

tokenize(query) == tokenize_loop(query, 1, <<>>, <<>>)

\* AND and OR with their precedences exchanged
precedence_swapped == (<<"!">> :> 3) @@ (<<" ">> :> 1) @@ (<<"|">> :> 2)

precedence == (<<"!">> :> 3) @@ (<<" ">> :> 2) @@ (<<"|">> :> 1)

\* the two stacks of parse, with the exception raised so far ("none" if none)
ParseState(stack, operators, exc) == [stack |-> stack, operators |-> operators, exc |-> exc]

\* called only with a non-empty operator stack
apply_operator(st) ==
    LET operator == Last(st.operators)
        ops == Front(st.operators)
    IN  IF operator = <<"!">>
        THEN IF Len(st.stack) < 1
             THEN ParseState(st.stack, ops, "IndexError")
             ELSE ParseState(Append(Front(st.stack),
                                    BooleanNode(operator, Last(st.stack), None)),
                             ops, "none")
        ELSE IF Len(st.stack) < 2
             THEN ParseState(<<>>, ops, "IndexError")
             ELSE LET right == Last(st.stack)
                      left == Last(Front(st.stack))
                  IN  ParseState(Append(Front(Front(st.stack)),
                                        BooleanNode(operator, left, right)),
                                 ops, "none")

\* while operators and operators[-1] != '(': apply_operator()
RECURSIVE close_paren_loop(_)
close_paren_loop(st) ==
    IF st.exc = "none" /\ st.operators # <<>> /\ Last(st.operators) # <<"(">>
    THEN close_paren_loop(apply_operator(st))
    ELSE st

\* while operators and operators[-1] != '(' and
\*       precedence[operators[-1]] >= precedence[token]: apply_operator()
RECURSIVE operator_loop(_, _)
operator_loop(st, token) ==
    IF st.exc # "none" \/ st.operators = <<>> \/ Last(st.operators) = <<"(">>
    THEN st
    ELSE IF Last(st.operators) \notin DOMAIN precedence \/ token \notin DOMAIN precedence
         THEN [st EXCEPT !.exc = "KeyError"]
         ELSE IF precedence[Last(st.operators)] >= precedence[token]
              THEN operator_loop(apply_operator(st), token)
              ELSE st

\* one iteration of the loop over the tokens
parse_token(st, token) ==
    IF is_operand(token)
    THEN [st EXCEPT !.stack = Append(@, BooleanNode(token, None, None))]
    ELSE IF token = <<"(">>
    THEN [st EXCEPT !.operators = Append(@, token)]
    ELSE IF token = <<")">>
    THEN LET s1 == close_paren_loop(st) IN
         IF s1.exc # "none" THEN s1
         ELSE IF s1.operators = <<>> THEN [s1 EXCEPT !.exc = "IndexError"]
         ELSE [s1 EXCEPT !.operators = Front(@)]
    ELSE LET s1 == operator_loop(st, token) IN
         IF s1.exc # "none" THEN s1
         ELSE [s1 EXCEPT !.operators = Append(@, token)]

RECURSIVE parse_tokens(_, _, _)
parse_tokens(st, tokens, k) ==
    IF st.exc # "none" \/ k > Len(tokens) THEN st
    ELSE parse_tokens(parse_token(st, tokens[k]), tokens, k + 1)

\* while operators: apply_operator()
RECURSIVE drain_operators(_)
drain_operators(st) ==
    IF st.exc = "none" /\ st.operators # <<>>
    THEN drain_operators(apply_operator(st))
    ELSE st

\* the outcome of parse: the exception raised, or the returned stack[0];
\* stack is the operand stack at the return, kept for the statements about it
parse(tokens) ==
    LET st == drain_operators(parse_tokens(ParseState(<<>>, <<>>, "none"), tokens, 1)) IN
    IF st.exc # "none" THEN [exc |-> st.exc, tree |-> None, stack |-> <<>>]
    ELSE IF st.stack = <<>> THEN [exc |-> "IndexError", tree |-> None, stack |-> <<>>]
    ELSE [exc |-> "none", tree |-> st.stack[1], stack |-> st.stack]

parse_query(query) == parse(tokenize(query))

----------------------------------------------------------------------------
(* Index *)

\* the words of the docs file
Words == {<<"a">>, <<"b">>, <<"a", "-", "b">>}

\* the ids of the docs file (first column)
DocIds == {int_to_str(n) : n \in 1..MaxDocs}

\* the docs file: the words of the header and text of every document
DocsFiles == [DocIds -> SUBSET Words]

\* Index.__init__: postings = inverted_index.setdefault(word, set()); postings.add(index)
Index(docs) ==
    [word \in {w \in Words : \E d \in DOMAIN docs : w \in docs[d]} |->
        {d \in DOMAIN docs : word \in docs[d]}]

----------------------------------------------------------------------------
(* QueryTree.evaluate_tree *)

\* A returned set: obj tells whether it is the posting set object stored in
\* the index under the key alias, or a set object created by the call.
SetResult(obj, alias, val) ==
    [exc |-> "none", kind |-> "set", obj |-> obj, alias |-> alias, val |-> val]

\* the implicit return None after the last if
NoneResult == [exc |-> "none", kind |-> "None", obj |-> "none", alias |-> <<>>, val |-> {}]

Raised(exc) == [exc |-> exc, kind |-> "raise", obj |-> "none", alias |-> <<>>, val |-> {}]

\* the universe taken from a single posting set instead of all of them
all_docs_one_term(document_index) ==
    IF DOMAIN document_index = {} THEN {}
    ELSE document_index[CHOOSE t \in DOMAIN document_index : TRUE]

\* set(doc_id for term_docs in document_index.values() for doc_id in term_docs)
all_docs(document_index) == UNION {document_index[t] : t \in DOMAIN document_index}

\* document_index.get(key, set())
Index_get(document_index, key) ==
    IF key \in DOMAIN document_index
    THEN SetResult("posting", key, document_index[key])
    ELSE SetResult("fresh", <<>>, {})

\* set - x, set & x and set | x raise TypeError when x is None
RECURSIVE evaluate_tree(_, _)
evaluate_tree(node, document_index) ==
    IF node = None THEN SetResult("fresh", <<>>, {})
    ELSE IF is_operand(node.value) THEN Index_get(document_index, node.value)
    ELSE IF node.value = <<"!">>
    THEN LET child == evaluate_tree(node.left, document_index) IN
         IF child.exc # "none" THEN child
         ELSE IF child.kind # "set" THEN Raised("TypeError")
         ELSE SetResult("fresh", <<>>, all_docs(document_index) \ child.val)
    ELSE IF node.value \in {<<" ">>, <<"|">>}
    THEN LET l == evaluate_tree(node.left, document_index) IN
         IF l.exc # "none" THEN l
         ELSE LET r == evaluate_tree(node.right, document_index) IN
              IF r.exc # "none" THEN r
              ELSE IF l.kind # "set" \/ r.kind # "set" THEN Raised("TypeError")
              ELSE IF node.value = <<" ">>
                   THEN SetResult("fresh", <<>>, l.val \cap r.val)
                   ELSE SetResult("fresh", <<>>, l.val \cup r.val)
    ELSE NoneResult

\* QueryTree.__init__
QueryTree(qid, query) ==
    LET p == parse_query(query) IN
    [qid |-> qid, exc |-> p.exc, tree |-> p.tree, stack |-> p.stack]

----------------------------------------------------------------------------
(* SearchResults *)

\* the key without the ", " between the two ids
format_key_no_separator(x, y) == x \o y

\* the f-string "{x}, {y}" of lines 144 and 154 on two strings
format_key(x, y) == x \o <<",", " ">> \o y

\* f"{query_index}, {document_index}" with an int query_index
result_key(query_index, document_index) ==
    format_key(int_to_str(query_index), document_index)

\* f"{QueryId}, {DocumentId}" with the two strings of an objects line
object_key(QueryId, DocumentId) == format_key(QueryId, DocumentId)

\* SearchResults.add
SearchResults_add(res, query_index, documents_indices) ==
    res \cup {result_key(query_index, d) : d \in documents_indices}

\* the query ids and document ids of the objects file
ObjectQueryIds == {<<"1">>, <<"2">>, <<"1", "1">>, <<"0", "1">>}
ObjectDocIds == DocIds \cup {<<"1", "1">>}

\* the lines of the objects file after the header, one per candidate pair
Objects ==
    {[ObjectId |-> <<q, d>>, QueryId |-> q, DocumentId |-> d] :
        q \in ObjectQueryIds, d \in ObjectDocIds}

\* SearchResults.print_submission: the header and one row per object
print_submission(res) ==
    [header |-> <<"ObjectId", "Relevance">>,
     rows |-> {[ObjectId |-> o.ObjectId,
                Relevance |-> IF object_key(o.QueryId, o.DocumentId) \in res
                              THEN 1 ELSE 0] : o \in Objects}]

----------------------------------------------------------------------------
(* main *)

NoTree == [qid |-> 0, exc |-> "none", tree |-> None, stack |-> <<>>]
NoResult == [exc |-> "none", kind |-> "unset", obj |-> "none", alias |-> <<>>, val |-> {}]
NoSubmission == [header |-> <<>>, rows |-> {}]

\* query_tree = QueryTree(int(fields[0]), fields[1]) for the next line
Construct ==
    /\ pc = "loop"
    /\ line <= Len(queries)
    /\ LET fields == queries[line] IN
       IF ~is_digits(fields.qid)
       THEN /\ query_tree' = [NoTree EXCEPT !.exc = "ValueError"]
            /\ pc' = "raised"
       ELSE /\ query_tree' = QueryTree(str_to_int(fields.qid), fields.query)
            /\ pc' = IF query_tree'.exc = "none" THEN "search" ELSE "raised"
    /\ found' = NoResult
    /\ UNCHANGED <<inverted_index, queries, line, results, added, calls, submission>>

\* search_results.add(query_tree.search(index)); iterating over None raises
SearchAdd ==
    /\ pc = "search"
    /\ found' = evaluate_tree(query_tree.tree, inverted_index)
    /\ IF found'.exc # "none"
       THEN /\ pc' = "raised"
            /\ UNCHANGED <<line, results, added, calls>>
       ELSE IF found'.kind # "set"
       THEN /\ pc' = "raised"
            /\ UNCHANGED <<line, results, added, calls>>
       ELSE /\ results' = SearchResults_add(results, query_tree.qid, found'.val)
            /\ added' = added \cup {<<query_tree.qid, d>> : d \in found'.val}
            /\ calls' = calls + 1
            /\ line' = line + 1
            /\ pc' = "loop"
    /\ UNCHANGED <<inverted_index, queries, query_tree, submission>>

\* search_results.print_submission(...) after the loop over the queries file
PrintSubmission ==
    /\ pc = "loop"
    /\ line > Len(queries)
    /\ submission' = print_submission(results)
    /\ pc' = "done"
    /\ UNCHANGED <<inverted_index, queries, line, query_tree, found, results, added, calls>>

\* the state after Index(args.docs_file) and SearchResults()
InitMain(batches) ==
    /\ \E docs \in DocsFiles : inverted_index = Index(docs)
    /\ queries \in batches
    /\ line = 1
    /\ pc = "loop"
    /\ query_tree = NoTree
    /\ found = NoResult
    /\ results = {}
    /\ added = {}
    /\ calls = 0
    /\ submission = NoSubmission

----------------------------------------------------------------------------
(* The queries *)

Sp == <<" ">>
Or == <<"|">>
Not == <<"!">>
LP == <<"(">>
RP == <<")">>

\* every string over Alphabet of length at most n
RECURSIVE Strings(_)
Strings(n) ==
    IF n = 0 THEN {<<>>}
    ELSE LET S == Strings(n - 1) IN S \cup {Append(s, c) : s \in S, c \in Alphabet}

\* the terms the longer queries are written with
Terms == Words \cup {<<"_">>}

AndOrQuery(a, b, c) == a \o Sp \o b \o Or \o c                \* "a b|c"
AndParenOrQuery(a, b, c) == a \o Sp \o LP \o b \o Or \o c \o RP  \* "a (b|c)"
NotNotQuery(a) == Not \o Not \o a                             \* "!!a"
NotQuery(a) == Not \o a                                       \* "!a"
NotAndQuery(a, b) == Not \o LP \o a \o Sp \o b \o RP          \* "!(a b)"
OrNotsQuery(a, b) == Not \o a \o Sp \o Or \o Sp \o Not \o b   \* "!a | !b"
NotOrQuery(a, b) == Not \o LP \o a \o Or \o b \o RP           \* "!(a|b)"
AndNotsQuery(a, b) == Not \o a \o Sp \o Not \o b              \* "!a !b"
AndQuery(a, b) == a \o Sp \o b                                \* "a b"
TwoSpacesQuery(a, b) == a \o Sp \o Sp \o b                    \* "a  b"
LeadingSpaceQuery(a) == Sp \o a                               \* " a"
TrailingSpaceQuery(a) == a \o Sp                              \* "a "

\* queries that are not well formed
MalformedQueries ==
    {LP \o a \o RP \o LP \o b \o RP : a, b \in {<<"a">>, <<"b">>}}        \* "(a)(b)"
    \cup {LP \o <<"a">> \o RP \o LP \o <<"b">>,                         \* "(a)(b"
          Not \o LP \o <<"a">> \o RP \o LP \o <<"b">>,                  \* "!(a)(b"
          LP \o <<"a">> \o Sp \o <<"b">>,                               \* "(a b"
          <<"a">> \o Sp \o <<"b">> \o RP,                               \* "a b)"
          <<"a">> \o Or \o Or \o <<"b">>,                               \* "a||b"
          <<"a">> \o Sp \o <<"b">> \o Or}                               \* "a b|"

QueryPool ==
    Strings(MaxQueryLen)
    \cup {AndOrQuery(a, b, c) : a, b, c \in Terms}
    \cup {AndParenOrQuery(a, b, c) : a, b, c \in Terms}
    \cup {NotNotQuery(a) : a \in Terms}
    \cup {NotQuery(a) : a \in Terms}
    \cup {NotAndQuery(a, b) : a, b \in Terms}
    \cup {OrNotsQuery(a, b) : a, b \in Terms}
    \cup {NotOrQuery(a, b) : a, b \in Terms}
    \cup {AndNotsQuery(a, b) : a, b \in Terms}
    \cup {AndQuery(a, b) : a, b \in Terms}
    \cup {TwoSpacesQuery(a, b) : a, b \in Terms}
    \cup {LeadingSpaceQuery(a) : a \in Terms}
    \cup {TrailingSpaceQuery(a) : a \in Terms}
    \cup Terms
    \cup MalformedQueries

\* the query ids of the queries file
QidTexts == {<<"1">>, <<"0", "2">>}

\* the queries of the batches of SpecMain
BatchQueries ==
    {<<"a">>, NotQuery(<<"b">>), TwoSpacesQuery(<<"a">>, <<"b">>),
     LP \o <<"a">> \o RP \o LP \o <<"b">>}

BatchLines == {[qid |-> q, query |-> s] : q \in QidTexts, s \in BatchQueries}

RECURSIVE SeqsUpTo(_, _)
SeqsUpTo(S, n) ==
    IF n = 0 THEN {<<>>}
    ELSE LET T == SeqsUpTo(S, n - 1) IN T \cup {Append(t, x) : t \in T, x \in S}

----------------------------------------------------------------------------
(* Specifications *)

\* one query through QueryTree(qid, query), search and add
Init == InitMain({<<[qid |-> <<"1">>, query |-> q]>> : q \in QueryPool})

Next == Construct \/ SearchAdd \/ PrintSubmission

Spec == Init /\ [][Next]_vars

\* main over a queries file of up to MaxBatch lines
InitBatch == InitMain(SeqsUpTo(BatchLines, MaxBatch) \ {<<>>})

SpecMain == InitBatch /\ [][Next]_vars

\* SearchResults alone: any add calls, then print_submission
AddQids == {1, 2, 11}

AddCall ==
    /\ pc = "loop"
    /\ calls < MaxAdds
    /\ \E q \in AddQids, D \in SUBSET ObjectDocIds :
        /\ found' = SetResult("fresh", <<>>, D)
        /\ results' = SearchResults_add(results, q, D)
        /\ added' = added \cup {<<q, d>> : d \in D}
    /\ calls' = calls + 1
    /\ UNCHANGED <<inverted_index, queries, line, pc, query_tree, submission>>

InitResults ==
    /\ inverted_index = Index([d \in DocIds |-> {}])
    /\ queries = <<>>
    /\ line = 1
    /\ pc = "loop"
    /\ query_tree = NoTree
    /\ found = NoResult
    /\ results = {}
    /\ added = {}
    /\ calls = 0
    /\ submission = NoSubmission

NextResults == AddCall \/ PrintSubmission

SpecResults == InitResults /\ [][NextResults]_vars

----------------------------------------------------------------------------
(* Properties *)

\* the line whose QueryTree query_tree holds (0 before the first)
CurLine == IF pc \in {"search", "raised"} THEN line ELSE line - 1

HasParsed == CurLine >= 1
ParsedQuery == queries[CurLine].query
HasSearched == found.kind # "unset"

\* P(t): the posting set of t, empty if t is absent
Postings(t) == IF t \in DOMAIN inverted_index THEN inverted_index[t] ELSE {}

\* U: every document id that occurs in some posting set
Universe == {d \in DocIds : \E t \in DOMAIN inverted_index : d \in inverted_index[t]}

\* the terms parse pushes as operands
OperandTerms == {t \in Terms : is_operand(t)}

RECURSIVE Nodes(_)
Nodes(n) == IF n = None THEN {} ELSE {n} \cup Nodes(n.left) \cup Nodes(n.right)

Leaf(t) == BooleanNode(t, None, None)

\* C1: "a b|c" parses and evaluates to (P(a) & P(b)) | P(c), and "a (b|c)"
\* to P(a) & (P(b) | P(c)), for all operand terms a, b, c and every index.
C1_Precedence ==
    \A a, b, c \in OperandTerms :
        /\ (HasParsed /\ ParsedQuery \in {AndOrQuery(a, b, c), AndParenOrQuery(a, b, c)})
              => (query_tree.exc = "none" /\ pc # "raised")
        /\ (HasSearched /\ ParsedQuery = AndOrQuery(a, b, c))
              => (found.kind = "set"
                  /\ found.val = (Postings(a) \cap Postings(b)) \cup Postings(c))
        /\ (HasSearched /\ ParsedQuery = AndParenOrQuery(a, b, c))
              => (found.kind = "set"
                  /\ found.val = Postings(a) \cap (Postings(b) \cup Postings(c)))

\* "a b|c" has been evaluated on an index where the two groupings differ
C1_Witness ==
    \E a, b, c \in OperandTerms :
        /\ HasSearched
        /\ ParsedQuery = AndOrQuery(a, b, c)
        /\ found.val # Postings(a) \cap (Postings(b) \cup Postings(c))

\* C2: a NOT node evaluates to U minus the result of its child, U being the
\* union of all posting sets of the index; with no documents it is empty.
C2_NotIsComplement ==
    (HasParsed /\ query_tree.exc = "none") =>
        /\ \A n \in Nodes(query_tree.tree) :
              n.value = Not =>
                 LET child == evaluate_tree(n.left, inverted_index)
                     r == evaluate_tree(n, inverted_index)
                 IN  child.kind = "set" =>
                        /\ r.exc = "none"
                        /\ r.kind = "set"
                        /\ r.val = Universe \ child.val
                        /\ (DOMAIN inverted_index = {} => r.val = {})
        /\ (HasSearched /\ query_tree.tree.value = Not
               /\ evaluate_tree(query_tree.tree.left, inverted_index).kind = "set")
              => (found.kind = "set"
                  /\ found.val = Universe
                        \ evaluate_tree(query_tree.tree.left, inverted_index).val)

\* "!a" evaluated where a is absent: the result comes from other terms' postings
C2_Witness ==
    /\ HasSearched
    /\ ParsedQuery = NotQuery(<<"a">>)
    /\ <<"a">> \notin DOMAIN inverted_index
    /\ found.val # {}

\* C3: "!!a" parses to NOT(NOT(a)) and evaluates like "a" when a is in the index.
C3_DoubleNegation ==
    \A a \in OperandTerms :
        (HasParsed /\ ParsedQuery = NotNotQuery(a) /\ a \in DOMAIN inverted_index) =>
            /\ query_tree.exc = "none"
            /\ query_tree.tree = BooleanNode(Not, BooleanNode(Not, Leaf(a), None), None)
            /\ HasSearched => (found.kind = "set" /\ found.val = Postings(a))

\* C4: the four De Morgan queries parse and evaluate; "!(a b)" and "!a | !b"
\* give U \ (P(a) & P(b)), "!(a|b)" and "!a !b" give U \ (P(a) | P(b)).
C4_DeMorgan ==
    \A a, b \in OperandTerms :
        /\ (HasParsed /\ ParsedQuery \in {NotAndQuery(a, b), OrNotsQuery(a, b),
                                          NotOrQuery(a, b), AndNotsQuery(a, b)})
              => (query_tree.exc = "none" /\ pc # "raised")
        /\ (HasSearched /\ ParsedQuery \in {NotAndQuery(a, b), OrNotsQuery(a, b)})
              => found.val = Universe \ (Postings(a) \cap Postings(b))
        /\ (HasSearched /\ ParsedQuery \in {NotOrQuery(a, b), AndNotsQuery(a, b)})
              => found.val = Universe \ (Postings(a) \cup Postings(b))

\* the parentheses of a query do not match
RECURSIVE Unbalanced(_, _, _)
Unbalanced(q, k, depth) ==
    IF k > Len(q) THEN depth # 0
    ELSE IF q[k] = "(" THEN Unbalanced(q, k + 1, depth + 1)
    ELSE IF q[k] = ")" THEN depth = 0 \/ Unbalanced(q, k + 1, depth - 1)
    ELSE Unbalanced(q, k + 1, depth)

\* C5: parse_query raises nothing but QuerySyntaxError, raises it when the
\* parentheses do not match, and returns a tree only when exactly one operand
\* is left on the stack and no node is tagged "(".
C5_MalformedRaises ==
    HasParsed =>
        /\ query_tree.exc \in {"none", "QuerySyntaxError"}
        /\ Unbalanced(ParsedQuery, 1, 0) => query_tree.exc = "QuerySyntaxError"
        /\ query_tree.exc = "none" =>
              /\ Len(query_tree.stack) = 1
              /\ \A n \in Nodes(query_tree.tree) : n.value # LP

\* C6: when main stops it has written the submission file, and every line
\* whose query parses has been searched and added.
C6_BatchNotAborted ==
    pc \in {"raised", "done"} =>
        /\ pc = "done"
        /\ \A k \in 1..Len(queries) :
              parse_query(queries[k].query).exc = "none" => k < line

\* C7: a recorded pair stays recorded, and print_submission labels an object 1
\* exactly when some add call passed its document id under its query id.
C7_Labels ==
    /\ \A p \in added : result_key(p[1], p[2]) \in results
    /\ pc = "done" =>
          \A o \in Objects :
              LET match == \E p \in added :
                              int_to_str(p[1]) = o.QueryId /\ p[2] = o.DocumentId
                  label == IF match THEN 1 ELSE 0
              IN  /\ [ObjectId |-> o.ObjectId, Relevance |-> label] \in submission.rows
                  /\ [ObjectId |-> o.ObjectId, Relevance |-> 1 - label] \notin submission.rows

\* the submission was written after two add calls, with both labels in it
C7_Witness ==
    /\ pc = "done"
    /\ calls >= 2
    /\ \E r1, r0 \in submission.rows : r1.Relevance = 1 /\ r0.Relevance = 0

\* C8: "a  b" builds the tree of "a b", and " a" and "a " the tree of "a".
C8_Whitespace ==
    \A a, b \in OperandTerms :
        /\ (HasParsed /\ ParsedQuery = TwoSpacesQuery(a, b))
              => (query_tree.exc = "none"
                  /\ query_tree.tree = parse_query(AndQuery(a, b)).tree)
        /\ (HasParsed /\ ParsedQuery \in {LeadingSpaceQuery(a), TrailingSpaceQuery(a)})
              => (query_tree.exc = "none" /\ query_tree.tree = Leaf(a))

\* C9: a query that is one run of characters other than ( ) space | ! parses
\* to one Term leaf and evaluates to the posting set of that term.
C9_AnyRunIsTerm ==
    (HasParsed /\ ParsedQuery # <<>>
        /\ \A k \in 1..Len(ParsedQuery) : ParsedQuery[k] \notin Delimiters) =>
        /\ query_tree.exc = "none"
        /\ query_tree.tree = Leaf(ParsedQuery)
        /\ HasSearched => (found.kind = "set" /\ found.val = Postings(ParsedQuery))

\* C10: the set evaluate_tree returns is never a posting set object of the index.
C10_FreshResult ==
    (HasSearched /\ found.kind = "set") => found.obj = "fresh"

====
